---------------------------- MODULE Spec2Model ----------------------------
(***************************************************************************)
(* Model of go-tcpws: a WebSocket-like framing layer over a byte stream.   *)
(*                                                                         *)
(*   frame codec  (tcpFrameReaderFactory, tcpFrameReader, tcpFrameWriter)  *)
(*   frame handler (tcpFrameHandler)                                       *)
(*   connection   (Conn: Read, ReadFrame, Write, Close)                    *)
(*                                                                         *)
(* The byte stream under the connection is the loop-back stream of the     *)
(* repository's tests (testConn: what the connection writes is what it     *)
(* reads).  Bytes are the integers 0..255; a frame on the wire is the      *)
(* sequence of bytes the writer produces.                                  *)
(***************************************************************************)
EXTENDS Integers, Sequences, FiniteSets, TLC

(***************************************************************************)
(* Bounds of the model.                                                    *)
(***************************************************************************)
\* longest payload handed to Conn.Write
MaxLen == 2
\* number of frames put on the stream (Conn.Write and Conn.Close together)
MaxFrames == 2
\* largest caller buffer handed to Conn.Read
MaxBuf == 2

(***************************************************************************)
(* Program constants.                                                      *)
(***************************************************************************)
ContinuationFrame == 0
TextFrame == 1
BinaryFrame == 2
CloseFrame == 8
UnknownFrame == 255
DefaultMaxPayloadBytes == 33554432
closeStatusNormal == 1000
preambule == <<90, 165, 90, 165>>

\* error values; "nil" is the nil error
ErrNil == "nil"
EOF == "EOF"
ErrBadPreambule == "ErrBadPreambule"
ErrBadMaskingKey == "ErrBadMaskingKey"
ErrFrameTooLarge == "ErrFrameTooLarge"
ErrRand == "ErrRand"

(***************************************************************************)
(* Bytes and bit operations.                                               *)
(***************************************************************************)
Min(a, b) == IF a < b THEN a ELSE b

RECURSIVE XorBits(_, _, _)
XorBits(a, b, n) ==
    IF n = 0 THEN 0
    ELSE (((a % 2) + (b % 2)) % 2) + 2 * XorBits(a \div 2, b \div 2, n - 1)

\* a ^ b on bytes
Xor(a, b) == XorBits(a, b, 8)

RECURSIVE OrBits(_, _, _)
OrBits(a, b, n) ==
    IF n = 0 THEN 0
    ELSE (IF (a % 2) + (b % 2) > 0 THEN 1 ELSE 0) + 2 * OrBits(a \div 2, b \div 2, n - 1)

\* a | b on bytes
Or(a, b) == OrBits(a, b, 8)

\* binary.BigEndian.AppendUint16 / AppendUint64: the k low bytes of v, high first
RECURSIVE BigEndian(_, _)
BigEndian(v, k) ==
    IF k = 0 THEN <<>> ELSE Append(BigEndian(v \div 256, k - 1), v % 256)

RECURSIVE Concat(_)
Concat(ss) == IF ss = <<>> THEN <<>> ELSE Head(ss) \o Concat(Tail(ss))

\* s[from+1 ..]
Drop(s, n) == SubSeq(s, n + 1, Len(s))
Take(s, n) == SubSeq(s, 1, n)

(***************************************************************************)
(* Frame writer: tcpFrameWriter.Write.                                     *)
(* A header value is [Fin, Rsv, OpCode, MaskingKey]; MaskingKey <<>> is    *)
(* the nil key.                                                            *)
(***************************************************************************)
\* first header byte: fin bit, the three reserved bits, the opcode
FirstByte(header) ==
    LET fin == IF header.Fin THEN 128 ELSE 0
        rsv == (IF header.Rsv[1] THEN 64 ELSE 0) + (IF header.Rsv[2] THEN 32 ELSE 0)
               + (IF header.Rsv[3] THEN 16 ELSE 0)
    IN Or(fin + rsv, header.OpCode)

\* (variant) the two boundaries lie one higher
WriterLengthFieldsLate(length) ==
    IF length <= 126 THEN 0 ELSE IF length <= 65536 THEN 2 ELSE 8

\* number of extended length bytes the writer uses for a payload of this length
WriterLengthFields(length) ==
    IF length <= 125 THEN 0 ELSE IF length < 65536 THEN 2 ELSE 8

\* the header bytes (without preambule) for a payload of the given length
HeaderBytes(header, length) ==
    LET maskbit == IF header.MaskingKey # <<>> THEN 128 ELSE 0
        lf == WriterLengthFields(length)
        ind == IF lf = 0 THEN length ELSE IF lf = 2 THEN 126 ELSE 127
        ext == IF lf = 2 THEN BigEndian(length % 65536, 2)
               ELSE IF lf = 8 THEN BigEndian(length, 8) ELSE <<>>
    IN <<FirstByte(header), Or(maskbit, ind)>> \o ext \o header.MaskingKey

\* msg[i] ^ key[i%4] for every payload byte (i counted from 0)
MaskPayload(msg, key) ==
    [i \in 1..Len(msg) |-> Xor(msg[i], key[((i - 1) % 4) + 1])]

\* tcpFrameWriter.Write: the three buffered writes it makes, the count and the
\* error it returns (the flush error is added by the caller of this operator)
FrameWriterWrite(header, msg) ==
    IF header.MaskingKey # <<>> /\ Len(header.MaskingKey) # 4
    THEN [chunks |-> <<>>, n |-> 0, err |-> ErrBadMaskingKey]
    ELSE LET hb == HeaderBytes(header, Len(msg))
             data == IF header.MaskingKey # <<>>
                     THEN MaskPayload(msg, header.MaskingKey) ELSE msg
         IN [chunks |-> <<preambule, hb, data>>,
             n |-> Len(preambule) + Len(hb) + Len(msg),
             err |-> ErrNil]

\* tcpFrameWriterFactory.NewFrameWriter: the header of the writer it makes;
\* key is the generated masking key
NewFrameWriter(payloadType, needMask, key) ==
    [Fin |-> TRUE, Rsv |-> <<FALSE, FALSE, FALSE>>, OpCode |-> payloadType,
     MaskingKey |-> IF needMask THEN key ELSE <<>>]

(***************************************************************************)
(* Frame reader factory: tcpFrameReaderFactory.NewFrameReader.             *)
(* s is the unread stream.  The result says how many bytes were consumed   *)
(* and gives either the new frame reader, an error, or "short": the stream *)
(* ran out inside the header (ReadByte then returns the stream's error).   *)
(***************************************************************************)
\* (variant) the four bytes are read first and compared as a whole
PreambuleStopWhole(s, i) ==
    IF Len(s) < Len(preambule) THEN Len(s) + 1
    ELSE IF SubSeq(s, 1, Len(preambule)) = preambule THEN 0
    ELSE Len(preambule)

\* index (1..4) of the first preamble byte that is missing or wrong, 0 if none
RECURSIVE PreambuleStop(_, _)
PreambuleStop(s, i) ==
    IF i > Len(preambule) THEN 0
    ELSE IF i > Len(s) \/ s[i] # preambule[i] THEN i
    ELSE PreambuleStop(s, i + 1)

\* Length = Length*256 + b over the extended length bytes
RECURSIVE LengthOf(_, _)
LengthOf(acc, bs) ==
    IF bs = <<>> THEN acc ELSE LengthOf(acc * 256 + Head(bs), Tail(bs))

\* header.Length (int64) after Length = Length*256 + int64(b) over eight
\* bytes: the arithmetic wraps at 64 bits, which leaves the two's complement
\* reading of the eight bytes
Int64(bs) ==
    IF bs[1] < 128 THEN LengthOf(0, bs)
    ELSE -LengthOf(0, [i \in 1..Len(bs) |-> 255 - bs[i]]) - 1

\* lengthFields chosen from the 7-bit indicator
ReaderLengthFields(ind) ==
    IF ind <= 125 THEN 0 ELSE IF ind = 126 THEN 2 ELSE 8

\* (variant) the preamble counts in the frame's length
FrameLenWithPreambule(hl, Length) == Len(preambule) + hl + Length

\* tcpFrame.length: len(header) + Length, header being the bytes read after
\* the preamble
FrameLen(hl, Length) == hl + Length

NewFrameReader(s) ==
    LET stop == PreambuleStop(s, 1)
    IN IF stop # 0
       THEN IF stop > Len(s)
            THEN [kind |-> "short", consumed |-> Len(s), err |-> EOF]
            ELSE [kind |-> "err", consumed |-> stop, err |-> ErrBadPreambule]
       ELSE IF Len(s) < 6
       THEN [kind |-> "short", consumed |-> Len(s), err |-> EOF]
       ELSE LET b1 == s[5]
                b2 == s[6]
                mask == b2 >= 128
                ind == b2 % 128
                lf == ReaderLengthFields(ind)
                hl == 2 + lf + (IF mask THEN 4 ELSE 0)
            IN IF Len(s) < 4 + hl
               THEN [kind |-> "short", consumed |-> Len(s), err |-> EOF]
               ELSE LET Length == IF lf = 0 THEN ind
                                  ELSE IF lf = 8 THEN Int64(SubSeq(s, 7, 6 + lf))
                                  ELSE LengthOf(0, SubSeq(s, 7, 6 + lf))
                        key == IF mask THEN SubSeq(s, 7 + lf, 10 + lf) ELSE <<>>
                    IN [kind |-> "ok", consumed |-> 4 + hl, err |-> ErrNil,
                        frame |-> [Fin |-> b1 >= 128,
                                   Rsv |-> <<(b1 \div 64) % 2 = 1,
                                             (b1 \div 32) % 2 = 1,
                                             (b1 \div 16) % 2 = 1>>,
                                   OpCode |-> b1 % 16,
                                   Length |-> Length,
                                   MaskingKey |-> key,
                                   pos |-> 0,
                                   N |-> Length,
                                   length |-> FrameLen(hl, Length)]]


(***************************************************************************)
(* Frame reader: tcpFrameReader.Read over io.LimitReader over the stream.  *)
(***************************************************************************)
\* (variant) the position counter starts again at 0 in every call
UnmaskFromZero(bytes, key, pos) ==
    IF key = <<>> THEN bytes
    ELSE [i \in 1..Len(bytes) |-> Xor(bytes[i], key[((i - 1) % 4) + 1])]

\* msg[i] ^= MaskingKey[pos%4]; pos++ for each of the bytes read
Unmask(bytes, key, pos) ==
    IF key = <<>> THEN bytes
    ELSE [i \in 1..Len(bytes) |-> Xor(bytes[i], key[((pos + i - 1) % 4) + 1])]

\* (variant) the reader is not limited to the payload of its frame
FrameReadNoLimit(frame, s, msgLen, k) ==
    IF frame.N <= 0
    THEN [kind |-> "ok", n |-> 0, data |-> <<>>, err |-> EOF, frame |-> frame]
    ELSE IF msgLen = 0
    THEN [kind |-> "ok", n |-> 0, data |-> <<>>, err |-> ErrNil, frame |-> frame]
    ELSE IF s = <<>>
    THEN [kind |-> "short", n |-> 0, data |-> <<>>, err |-> EOF, frame |-> frame]
    ELSE LET n == Min(k, Min(msgLen, Len(s)))
         IN [kind |-> "ok", n |-> n,
             data |-> Unmask(Take(s, n), frame.MaskingKey, frame.pos),
             err |-> ErrNil,
             frame |-> [frame EXCEPT !.N = @ - n,
                                     !.pos = IF frame.MaskingKey # <<>>
                                             THEN @ + n ELSE @]]

\* (variant) a frame whose payload is used up reads as (0, nil)
FrameReadNoEOF(frame, s, msgLen, k) ==
    IF frame.N <= 0 \/ msgLen = 0
    THEN [kind |-> "ok", n |-> 0, data |-> <<>>, err |-> ErrNil, frame |-> frame]
    ELSE IF s = <<>>
    THEN [kind |-> "short", n |-> 0, data |-> <<>>, err |-> EOF, frame |-> frame]
    ELSE LET n == Min(k, Min(Min(msgLen, frame.N), Len(s)))
         IN [kind |-> "ok", n |-> n,
             data |-> Unmask(Take(s, n), frame.MaskingKey, frame.pos),
             err |-> ErrNil,
             frame |-> [frame EXCEPT !.N = @ - n,
                                     !.pos = IF frame.MaskingKey # <<>>
                                             THEN @ + n ELSE @]]

\* One call frame.Read(msg) with len(msg) = msgLen on the unread stream s.
\* k >= 1 is how many bytes the stream hands over at most in this call (a
\* reader may return fewer bytes than asked for).  kind "short": the limit is
\* not reached and the stream has no byte left.
FrameRead(frame, s, msgLen, k) ==
    IF frame.N <= 0
    THEN [kind |-> "ok", n |-> 0, data |-> <<>>, err |-> EOF, frame |-> frame]
    ELSE IF msgLen = 0
    THEN [kind |-> "ok", n |-> 0, data |-> <<>>, err |-> ErrNil, frame |-> frame]
    ELSE IF s = <<>>
    THEN [kind |-> "short", n |-> 0, data |-> <<>>, err |-> EOF, frame |-> frame]
    ELSE LET n == Min(k, Min(Min(msgLen, frame.N), Len(s)))
         IN [kind |-> "ok", n |-> n,
             data |-> Unmask(Take(s, n), frame.MaskingKey, frame.pos),
             err |-> ErrNil,
             frame |-> [frame EXCEPT !.N = @ - n,
                                     !.pos = IF frame.MaskingKey # <<>>
                                             THEN @ + n ELSE @]]

(***************************************************************************)
(* Frame handler: tcpFrameHandler.HandleFrame.                             *)
(* payloadType is the handler's held type.  frame is <<>> (nil) or <<f>>.  *)
(***************************************************************************)
\* (variant) a close frame is passed on like an unknown opcode
HandleFrameNoClose(frame, payloadType) ==
    IF frame.OpCode = ContinuationFrame
    THEN [frame |-> <<[frame EXCEPT !.OpCode = payloadType]>>, err |-> ErrNil,
          payloadType |-> payloadType]
    ELSE IF frame.OpCode \in {TextFrame, BinaryFrame}
    THEN [frame |-> <<frame>>, err |-> ErrNil, payloadType |-> frame.OpCode]
    ELSE [frame |-> <<frame>>, err |-> ErrNil, payloadType |-> payloadType]

\* (variant) text and binary frames do not change the held type
HandleFrameForgets(frame, payloadType) ==
    IF frame.OpCode = ContinuationFrame
    THEN [frame |-> <<[frame EXCEPT !.OpCode = payloadType]>>, err |-> ErrNil,
          payloadType |-> payloadType]
    ELSE IF frame.OpCode = CloseFrame
    THEN [frame |-> <<>>, err |-> EOF, payloadType |-> payloadType]
    ELSE [frame |-> <<frame>>, err |-> ErrNil, payloadType |-> payloadType]

\* (variant) the opcode of every frame that is neither continuation nor close
\* is held
HandleFrameHoldsAll(frame, payloadType) ==
    IF frame.OpCode = ContinuationFrame
    THEN [frame |-> <<[frame EXCEPT !.OpCode = payloadType]>>, err |-> ErrNil,
          payloadType |-> payloadType]
    ELSE IF frame.OpCode = CloseFrame
    THEN [frame |-> <<>>, err |-> EOF, payloadType |-> payloadType]
    ELSE [frame |-> <<frame>>, err |-> ErrNil, payloadType |-> frame.OpCode]

HandleFrame(frame, payloadType) ==
    IF frame.OpCode = ContinuationFrame
    THEN [frame |-> <<[frame EXCEPT !.OpCode = payloadType]>>, err |-> ErrNil,
          payloadType |-> payloadType]
    ELSE IF frame.OpCode \in {TextFrame, BinaryFrame}
    THEN [frame |-> <<frame>>, err |-> ErrNil, payloadType |-> frame.OpCode]
    ELSE IF frame.OpCode = CloseFrame
    THEN [frame |-> <<>>, err |-> EOF, payloadType |-> payloadType]
    ELSE [frame |-> <<frame>>, err |-> ErrNil, payloadType |-> payloadType]


(***************************************************************************)
(* Connection, read side.  The read-side state of a connection is          *)
(*   [wire, frameReader, payloadType, off, starts]                         *)
(* wire: the unread bytes of the stream; frameReader: <<>> (nil) or <<f>>; *)
(* payloadType: the handler's held type; off: bytes consumed so far;       *)
(* starts: the offsets at which a header decode began (for the claims).    *)
(* shortErr is what the stream does when it has no byte left: "block", or  *)
(* the error it returns.                                                   *)
(***************************************************************************)
Blocked == [kind |-> "block"]

Consume(c, n) == [c EXCEPT !.wire = Drop(@, n), !.off = @ + n]

\* Conn.Read(msg), len(msg) = msgLen
RECURSIVE ConnRead(_, _, _, _)
ConnRead(c, msgLen, k, shortErr) ==
    IF c.frameReader = <<>>
    THEN LET d == NewFrameReader(c.wire)
             c1 == [Consume(c, d.consumed) EXCEPT !.starts = @ \cup {c.off}]
         IN IF d.kind = "short"
            THEN IF shortErr = "block" THEN Blocked
                 ELSE [kind |-> "ret", n |-> 0, data |-> <<>>, err |-> shortErr, c |-> c1]
            ELSE IF d.kind = "err"
            THEN [kind |-> "ret", n |-> 0, data |-> <<>>, err |-> d.err, c |-> c1]
            ELSE LET h == HandleFrame(d.frame, c.payloadType)
                     c2 == [c1 EXCEPT !.frameReader = h.frame,
                                      !.payloadType = h.payloadType]
                 IN IF h.err # ErrNil
                    THEN [kind |-> "ret", n |-> 0, data |-> <<>>, err |-> h.err, c |-> c2]
                    ELSE ConnRead(c2, msgLen, k, shortErr)
    ELSE LET r == FrameRead(c.frameReader[1], c.wire, msgLen, k)
         IN IF r.kind = "short"
            THEN IF shortErr = "block" THEN Blocked
                 ELSE IF shortErr = EOF
                 THEN ConnRead([c EXCEPT !.frameReader = <<>>], msgLen, k, shortErr)
                 ELSE [kind |-> "ret", n |-> 0, data |-> <<>>, err |-> shortErr, c |-> c]
            ELSE IF r.err = EOF
            THEN ConnRead([c EXCEPT !.frameReader = <<>>], msgLen, k, shortErr)
            ELSE [kind |-> "ret", n |-> r.n, data |-> r.data, err |-> r.err,
                  c |-> [Consume(c, r.n) EXCEPT !.frameReader = <<r.frame>>]]

\* (variant) the frame is dropped without reading its payload
DiscardNothing(frame, s) ==
    [n |-> 0, short |-> FALSE, frame |-> [frame EXCEPT !.N = 0]]

\* io.Copy(io.Discard, frame): what is consumed, and whether the stream ran out
\* before the frame's limit
Discard(frame, s) ==
    LET n == IF frame.N <= 0 THEN 0 ELSE Min(frame.N, Len(s))
    IN [n |-> n, short |-> frame.N > 0 /\ Len(s) < frame.N,
        frame |-> [frame EXCEPT !.N = IF @ <= 0 THEN @ ELSE @ - n]]

\* (variant) one read of at most one byte in place of io.ReadAll
ReadAllOnce(frame, s) ==
    LET n == IF frame.N <= 0 THEN 0 ELSE Min(1, Min(frame.N, Len(s)))
    IN [n |-> n, short |-> FALSE,
        data |-> Unmask(Take(s, n), frame.MaskingKey, frame.pos)]

\* io.ReadAll(frame): everything up to the frame's limit or the end of the stream
ReadAll(frame, s) ==
    LET n == IF frame.N <= 0 THEN 0 ELSE Min(frame.N, Len(s))
    IN [n |-> n, short |-> frame.N > 0 /\ Len(s) < frame.N,
        data |-> Unmask(Take(s, n), frame.MaskingKey, frame.pos)]

\* the ceiling ReadFrame applies
EffectiveMax(maxPayloadBytes) ==
    IF maxPayloadBytes = 0 THEN DefaultMaxPayloadBytes ELSE maxPayloadBytes

\* (variant) the check lets a payload one byte over the ceiling pass
TooLargeLax(frame, maxPayloadBytes) == EffectiveMax(maxPayloadBytes) < frame.Length - 1

\* (variant) the check compares the total length Len() of the frame
TooLargeTotal(frame, maxPayloadBytes) == EffectiveMax(maxPayloadBytes) < frame.length

\* the size check of ReadFrame
TooLarge(frame, maxPayloadBytes) == EffectiveMax(maxPayloadBytes) < frame.Length

\* the loop of Conn.ReadFrame, entered with no active frame
RECURSIVE ReadFrameLoop(_, _, _)
ReadFrameLoop(c, maxPayloadBytes, shortErr) ==
    LET d == NewFrameReader(c.wire)
        c1 == [Consume(c, d.consumed) EXCEPT !.starts = @ \cup {c.off}]
    IN IF d.kind = "short"
       THEN IF shortErr = "block" THEN Blocked
            ELSE [kind |-> "ret", data |-> <<>>, isNil |-> TRUE, err |-> shortErr, c |-> c1]
       ELSE IF d.kind = "err"
       THEN [kind |-> "ret", data |-> <<>>, isNil |-> TRUE, err |-> d.err, c |-> c1]
       ELSE LET h == HandleFrame(d.frame, c.payloadType)
                c2 == [c1 EXCEPT !.payloadType = h.payloadType]
            IN IF h.err # ErrNil
               THEN [kind |-> "ret", data |-> <<>>, isNil |-> TRUE, err |-> h.err, c |-> c2]
               ELSE IF h.frame = <<>>
               THEN ReadFrameLoop(c2, maxPayloadBytes, shortErr)
               ELSE LET frame == h.frame[1]
                        dr == Discard(frame, c2.wire)
                        ra == ReadAll(frame, c2.wire)
                    IN IF TooLarge(frame, maxPayloadBytes)
                       THEN IF dr.short /\ shortErr = "block" THEN Blocked
                            ELSE IF dr.short /\ shortErr # EOF
                            THEN [kind |-> "ret", data |-> <<>>, isNil |-> TRUE,
                                  err |-> shortErr, c |-> Consume(c2, dr.n)]
                            ELSE [kind |-> "ret", data |-> <<>>, isNil |-> TRUE,
                                  err |-> ErrFrameTooLarge, c |-> Consume(c2, dr.n)]
                       ELSE IF ra.short /\ shortErr = "block" THEN Blocked
                       ELSE [kind |-> "ret", data |-> ra.data, isNil |-> FALSE,
                             err |-> IF ra.short /\ shortErr # EOF THEN shortErr ELSE ErrNil,
                             c |-> Consume(c2, ra.n)]

\* (variant) the rest of an active frame is returned as the message
ConnReadFrameRemainder(c, maxPayloadBytes, shortErr) ==
    IF c.frameReader # <<>>
    THEN LET ra == ReadAll(c.frameReader[1], c.wire)
         IN [kind |-> "ret", data |-> ra.data, isNil |-> FALSE, err |-> ErrNil,
             c |-> [Consume(c, ra.n) EXCEPT !.frameReader = <<>>]]
    ELSE ReadFrameLoop(c, maxPayloadBytes, shortErr)

\* Conn.ReadFrame
ConnReadFrame(c, maxPayloadBytes, shortErr) ==
    IF c.frameReader # <<>>
    THEN LET dr == Discard(c.frameReader[1], c.wire)
             c1 == Consume(c, dr.n)
         IN IF dr.short /\ shortErr = "block" THEN Blocked
            ELSE IF dr.short /\ shortErr # EOF
            THEN [kind |-> "ret", data |-> <<>>, isNil |-> TRUE, err |-> shortErr,
                  c |-> [c1 EXCEPT !.frameReader = <<dr.frame>>]]
            ELSE ReadFrameLoop([c1 EXCEPT !.frameReader = <<>>], maxPayloadBytes, shortErr)
    ELSE ReadFrameLoop(c, maxPayloadBytes, shortErr)


(***************************************************************************)
(* State.                                                                  *)
(***************************************************************************)
VARIABLES
    wire,            \* unread bytes of the stream (bufio.Reader and rwc together)
    frameReader,     \* conn.frameReader: <<>> (nil) or <<frame>>
    payloadType,     \* handler.payloadType, the held payload type
    PayloadType,     \* conn.PayloadType, the opcode Conn.Write uses
    MaxPayloadBytes, \* conn.MaxPayloadBytes
    needMaskingKey,  \* tcpFrameWriterFactory.needMaskingKey
    blocking,        \* the stream blocks when empty (a socket); FALSE: it returns
                     \* io.EOF when empty (the bytes.Buffer of the tests)
    rwcClosed,       \* rwc.Close() was called
    off,             \* number of stream bytes consumed by the read side
    aligned,         \* every header decode so far began where a frame begins
    sent,            \* the frames put on the stream, in order:
                     \* [by, op, payload, length, raw]
    got,             \* all bytes returned by Conn.Read so far, in order
    gotFrames,       \* the buffers returned by successful Conn.ReadFrame calls
    used,            \* the read operations called so far
    ret,             \* what the last call returned: [op, n, data, isNil, err]
    lock,            \* conn.rio and conn.wio: the thread holding each, or Free
    thr,             \* per thread: the call it is in and where it stands in it
    wbuf,            \* bytes held by the bufio.Writer, each with the frame it is of
    sink,            \* every byte flushed to the stream, with the frame it is of
    handled,         \* frames given to a handler on its own: opcode in, opcode reported
    probe            \* the inputs and results of a codec function applied on its own

vars == <<wire, frameReader, payloadType, PayloadType, MaxPayloadBytes,
          needMaskingKey, blocking, rwcClosed, off, aligned, sent, got,
          gotFrames, used, ret, lock, thr, wbuf, sink, handled, probe>>

\* the state only the frame-level operations applied on their own change
unit == <<handled, probe>>

\* the state only concurrent callers change
conc == <<lock, thr, wbuf, sink>>

config == <<PayloadType, MaxPayloadBytes, needMaskingKey, blocking>>
readSide == <<frameReader, payloadType, off, aligned, got, gotFrames>>

ErrClosed == "ErrClosed"

\* The payloads handed to Conn.Write: the f-th frame of a run carries bytes no
\* other frame carries, so that a lost, repeated, misplaced or still masked
\* byte shows in what the reader returns.
PayloadOf(f, len) == [i \in 1..len |-> 64 + 16 * f + i]
Payloads == {PayloadOf(Len(sent) + 1, len) : len \in 0..MaxLen}

\* masking keys generateMaskingKey may return
Keys == {<<15, 255, 255, 15>>, <<1, 2, 3, 4>>}

\* values of MaxPayloadBytes a connection is built with
MaxChoices == {0, 1}

\* What a peer puts on the stream: the header of a final binary frame with an
\* 8-byte length field, announcing DefaultMaxPayloadBytes bytes or one more.
BigHeader(length) == preambule \o <<128 + BinaryFrame, 127>> \o BigEndian(length, 8)
BigLengths == {DefaultMaxPayloadBytes, DefaultMaxPayloadBytes + 1}

NoRet == [op |-> "none", n |-> 0, data |-> <<>>, isNil |-> TRUE, err |-> ErrNil]
NoProbe == [op |-> "none"]

\* the threads that call the connection concurrently
Threads == {"t1", "t2"}
Free == "free"
Idle == [op |-> "idle", chunks |-> <<>>, id |-> 0, n |-> 0, err |-> ErrNil,
         msgLen |-> 0, k |-> 0]

\* NewFrameConnection, with a zero-valued tcpFrameHandler
Init ==
    /\ wire = <<>>
    /\ frameReader = <<>>
    /\ payloadType = 0
    /\ PayloadType = ContinuationFrame
    /\ MaxPayloadBytes \in MaxChoices
    /\ needMaskingKey \in BOOLEAN
    /\ blocking = FALSE
    /\ rwcClosed = FALSE
    /\ off = 0
    /\ aligned = TRUE
    /\ sent = <<>>
    /\ got = <<>>
    /\ gotFrames = <<>>
    /\ used = {}
    /\ ret = NoRet
    /\ lock = [m \in {"rio", "wio"} |-> Free]
    /\ thr = [t \in Threads |-> Idle]
    /\ wbuf = <<>>
    /\ sink = <<>>
    /\ handled = <<>>
    /\ probe = NoProbe

\* what a read of the empty stream does
ShortErr == IF ~blocking THEN EOF ELSE IF rwcClosed THEN ErrClosed ELSE "block"

\* bufio.Writer.Flush on the stream: fails once a socket is closed
FlushErr == IF blocking /\ rwcClosed THEN ErrClosed ELSE ErrNil

\* offsets of the stream at which a frame begins (the end of the stream is
\* where the next frame will begin)
RECURSIVE RawLen(_, _)
RawLen(fs, k) == IF k = 0 THEN 0 ELSE RawLen(fs, k - 1) + Len(fs[k].raw)
FrameStarts == {RawLen(sent, k) : k \in 0..Len(sent)}

\* the read-side state handed to ConnRead / ConnReadFrame
ReadState ==
    [wire |-> wire, frameReader |-> frameReader, payloadType |-> payloadType,
     off |-> off, starts |-> {}]

\* One frame goes out: NewFrameWriter(opcode), writer.Write(msg) and its Flush.
\* randOk: generateMaskingKey succeeded.  delivered: the bytes reached the stream.
Emit(opcode, msg, key, randOk) ==
    LET header == NewFrameWriter(opcode, needMaskingKey, key)
        w == FrameWriterWrite(header, msg)
    IN IF needMaskingKey /\ ~randOk
       THEN [n |-> 0, err |-> ErrRand, delivered |-> FALSE, raw |-> <<>>]
       ELSE IF w.err # ErrNil
       THEN [n |-> w.n, err |-> w.err, delivered |-> FALSE, raw |-> <<>>]
       ELSE [n |-> w.n, err |-> FlushErr, delivered |-> FlushErr = ErrNil,
             raw |-> Concat(w.chunks)]

\* the stream and the record of frames after an Emit
Deliver(e, by, opcode, msg) ==
    IF e.delivered
    THEN /\ wire' = wire \o e.raw
         /\ sent' = Append(sent, [by |-> by, op |-> opcode, payload |-> msg,
                                  length |-> Len(msg), raw |-> e.raw])
    ELSE UNCHANGED <<wire, sent>>

\* the count Conn.Write returns from the frame writer's count
WriteCount(n) == n

\* Conn.Write(msg)
Write(msg, key, randOk) ==
    /\ Len(sent) < MaxFrames
    /\ LET e == Emit(PayloadType, msg, key, randOk)
       IN /\ Deliver(e, "Write", PayloadType, msg)
          /\ ret' = [op |-> "Write", n |-> WriteCount(e.n), data |-> <<>>,
                     isNil |-> TRUE, err |-> e.err]
    /\ UNCHANGED <<unit, config, readSide, rwcClosed, used, conc>>

\* tcpFrameHandler.WriteClose(writerFactory, status)
WriteClose(status, key, randOk) ==
    Emit(CloseFrame, BigEndian(status % 65536, 2), key, randOk)

\* rwc.Close(): the error the stream returns when its Close fails (closeOk
\* false), an error for a socket that is closed already, nil otherwise
ErrClose == "ErrClose"
RwcCloseErr(closeOk) ==
    IF ~closeOk THEN ErrClose
    ELSE IF blocking /\ rwcClosed THEN ErrClosed ELSE ErrNil

\* what Conn.Close returns: err of WriteClose, err1 of rwc.Close()
CloseResultStreamFirst(err, err1) == IF err1 # ErrNil THEN err1 ELSE err
CloseResult(err, err1) == IF err # ErrNil THEN err ELSE err1

\* Conn.Close()
Close(key, randOk, closeOk) ==
    /\ Len(sent) < MaxFrames
    /\ LET e == WriteClose(closeStatusNormal, key, randOk)
       IN /\ Deliver(e, "Close", CloseFrame, BigEndian(closeStatusNormal % 65536, 2))
          /\ ret' = [op |-> "Close", n |-> 0, data |-> <<>>, isNil |-> TRUE,
                     err |-> CloseResult(e.err, RwcCloseErr(closeOk))]
    /\ rwcClosed' = TRUE
    /\ UNCHANGED <<unit, config, readSide, used, conc>>

\* the peer puts the header of a binary frame of the given payload length on
\* the stream, and no payload after it
Inject(length) ==
    /\ Len(sent) < MaxFrames
    /\ wire' = wire \o BigHeader(length)
    /\ sent' = Append(sent, [by |-> "peer", op |-> BinaryFrame, payload |-> <<>>,
                             length |-> length, raw |-> BigHeader(length)])
    /\ UNCHANGED <<unit, config, readSide, rwcClosed, used, ret, conc>>

\* Conn.Read(msg) with len(msg) = msgLen
Read(msgLen, k) ==
    LET r == ConnRead(ReadState, msgLen, k, ShortErr)
    IN /\ r.kind = "ret"
       /\ wire' = r.c.wire
       /\ frameReader' = r.c.frameReader
       /\ payloadType' = r.c.payloadType
       /\ off' = r.c.off
       /\ aligned' = (aligned /\ r.c.starts \subseteq FrameStarts)
       /\ got' = got \o r.data
       /\ ret' = [op |-> "Read", n |-> r.n, data |-> r.data, isNil |-> FALSE, err |-> r.err]
       /\ used' = used \cup {"Read"}
       /\ UNCHANGED <<unit, config, rwcClosed, sent, gotFrames, conc>>

\* Conn.ReadFrame()
ReadFrame ==
    LET r == ConnReadFrame(ReadState, MaxPayloadBytes, ShortErr)
    IN /\ r.kind = "ret"
       /\ wire' = r.c.wire
       /\ frameReader' = r.c.frameReader
       /\ payloadType' = r.c.payloadType
       /\ off' = r.c.off
       /\ aligned' = (aligned /\ r.c.starts \subseteq FrameStarts)
       /\ gotFrames' = IF r.err = ErrNil THEN Append(gotFrames, r.data) ELSE gotFrames
       /\ ret' = [op |-> "ReadFrame", n |-> Len(r.data), data |-> r.data,
                  isNil |-> r.isNil, err |-> r.err]
       /\ used' = used \cup {"ReadFrame"}
       /\ UNCHANGED <<unit, config, rwcClosed, sent, got, conc>>

Next ==
    \/ \E msg \in Payloads, key \in Keys, randOk \in BOOLEAN : Write(msg, key, randOk)
    \/ \E key \in Keys, randOk \in BOOLEAN, closeOk \in BOOLEAN : Close(key, randOk, closeOk)
    \/ \E length \in BigLengths : Inject(length)
    \/ \E msgLen \in 0..MaxBuf, k \in 1..MaxBuf : (k <= msgLen \/ k = 1) /\ Read(msgLen, k)
    \/ ReadFrame

Spec == Init /\ [][Next]_vars


(***************************************************************************)
(* Concurrent callers.  Each thread is in at most one call; a call is      *)
(* split where another thread can act in between: taking the mutex, each   *)
(* call on the shared bufio.Writer, and the return.  The body of a read    *)
(* call is one step, taken once the stream has what the call waits for:    *)
(* only the holder of rio consumes the stream.                             *)
(***************************************************************************)
\* the mutex each method takes
ReadMutex == "rio"

ReadFrameMutexIsWio == "wio"
ReadFrameMutex == "rio"

WriteMutexIsRio == "rio"
WriteMutex == "wio"

\* NewFrameConnection over a stream of the tests or over a socket
InitConc ==
    /\ wire = <<>>
    /\ frameReader = <<>>
    /\ payloadType = 0
    /\ PayloadType = ContinuationFrame
    /\ MaxPayloadBytes = 0
    /\ needMaskingKey = FALSE
    /\ blocking \in BOOLEAN
    /\ rwcClosed = FALSE
    /\ off = 0
    /\ aligned = TRUE
    /\ sent = <<>>
    /\ got = <<>>
    /\ gotFrames = <<>>
    /\ used = {}
    /\ ret = NoRet
    /\ lock = [m \in {"rio", "wio"} |-> Free]
    /\ thr = [t \in Threads |-> Idle]
    /\ wbuf = <<>>
    /\ sink = <<>>
    /\ handled = <<>>
    /\ probe = NoProbe

\* (variant) the mutex is unlocked only where the call returns a nil error
UnlockOnSuccess(m, err) == IF err = ErrNil THEN [lock EXCEPT ![m] = Free] ELSE lock

\* defer conn.rio.Unlock() / defer conn.wio.Unlock(): the locks once a call
\* that took m has returned err
DeferUnlock(m, err) == [lock EXCEPT ![m] = Free]

\* the bytes of a chunk, each with the frame it is of
Tag(chunk, id) == [i \in 1..Len(chunk) |-> [b |-> chunk[i], id |-> id]]

\* the call a thread enters to emit one frame: NewFrameWriter(opcode) and the
\* values tcpFrameWriter.Write computes before its first buffered write
Emitting(op, opcode, msg, key, randOk) ==
    LET header == NewFrameWriter(opcode, needMaskingKey, key)
        w == FrameWriterWrite(header, msg)
    IN IF needMaskingKey /\ ~randOk
       THEN [Idle EXCEPT !.op = op, !.err = ErrRand]
       ELSE [Idle EXCEPT !.op = op, !.chunks = w.chunks, !.n = w.n, !.err = w.err,
                         !.id = IF w.err = ErrNil THEN Len(sent) + 1 ELSE 0]

\* the record of the frame a call is about to emit
Record(e, by, opcode, msg) ==
    IF e.id = 0 THEN sent
    ELSE Append(sent, [by |-> by, op |-> opcode, payload |-> msg,
                       length |-> Len(msg), raw |-> Concat(e.chunks)])

\* Conn.Write: conn.wio.Lock() and the frame writer's preparation
WriteBegin(t, msg, key, randOk) ==
    /\ thr[t].op = "idle"
    /\ lock[WriteMutex] = Free
    /\ Len(sent) < MaxFrames
    /\ LET e == Emitting("Write", PayloadType, msg, key, randOk)
       IN /\ thr' = [thr EXCEPT ![t] = e]
          /\ sent' = Record(e, "Write", PayloadType, msg)
    /\ lock' = [lock EXCEPT ![WriteMutex] = t]
    /\ UNCHANGED <<unit, config, readSide, wire, rwcClosed, used, ret, wbuf, sink>>

\* Conn.Close: WriteClose begins, with no mutex taken
CloseBegin(t, key, randOk) ==
    /\ thr[t].op = "idle"
    /\ Len(sent) < MaxFrames
    /\ LET msg == BigEndian(closeStatusNormal % 65536, 2)
           e == Emitting("Close", CloseFrame, msg, key, randOk)
       IN /\ thr' = [thr EXCEPT ![t] = e]
          /\ sent' = Record(e, "Close", CloseFrame, msg)
    /\ UNCHANGED <<unit, config, readSide, wire, rwcClosed, used, ret, lock, wbuf, sink>>

\* another thread is inside the shared bufio.Writer with no mutex ordering the
\* two: one of them is a Close
Racing(t) ==
    \E u \in Threads \ {t} :
        /\ thr[u].op \in {"Write", "Close"}
        /\ "Close" \in {thr[t].op, thr[u].op}

\* frame.writer.Write(chunk) on the shared bufio.Writer.  When the call races
\* with another thread's, the chunk is either buffered or lost to the other
\* thread's update of the buffer.
BufWrite(t) ==
    /\ thr[t].op \in {"Write", "Close"}
    /\ thr[t].err = ErrNil
    /\ thr[t].chunks # <<>>
    /\ \E lost \in (IF Racing(t) THEN BOOLEAN ELSE {FALSE}) :
         wbuf' = IF lost THEN wbuf ELSE wbuf \o Tag(Head(thr[t].chunks), thr[t].id)
    /\ thr' = [thr EXCEPT ![t].chunks = Tail(@)]
    /\ UNCHANGED <<unit, config, readSide, wire, rwcClosed, sent, used, ret, lock, sink>>

\* frame.writer.Flush(): everything buffered goes to the stream
Flush(t) ==
    IF thr[t].err = ErrNil /\ FlushErr = ErrNil
    THEN /\ wire' = wire \o [i \in 1..Len(wbuf) |-> wbuf[i].b]
         /\ sink' = sink \o wbuf
         /\ wbuf' = <<>>
    ELSE UNCHANGED <<wire, sink, wbuf>>

\* the error of a frame writer's Write
EmitErr(t) == IF thr[t].err # ErrNil THEN thr[t].err ELSE FlushErr

\* Conn.Write: the Flush, the return and the deferred conn.wio.Unlock()
WriteEnd(t) ==
    /\ thr[t].op = "Write"
    /\ thr[t].err # ErrNil \/ thr[t].chunks = <<>>
    /\ Flush(t)
    /\ ret' = [op |-> "Write", n |-> WriteCount(thr[t].n), data |-> <<>>,
               isNil |-> TRUE, err |-> EmitErr(t)]
    /\ lock' = DeferUnlock(WriteMutex, EmitErr(t))
    /\ thr' = [thr EXCEPT ![t] = Idle]
    /\ UNCHANGED <<unit, config, readSide, rwcClosed, sent, used>>

\* Conn.Close: the Flush of WriteClose, rwc.Close() and the return
CloseEnd(t) ==
    /\ thr[t].op = "Close"
    /\ thr[t].err # ErrNil \/ thr[t].chunks = <<>>
    /\ Flush(t)
    /\ \E closeOk \in BOOLEAN :
         ret' = [op |-> "Close", n |-> 0, data |-> <<>>, isNil |-> TRUE,
                 err |-> CloseResult(EmitErr(t), RwcCloseErr(closeOk))]
    /\ rwcClosed' = TRUE
    /\ thr' = [thr EXCEPT ![t] = Idle]
    /\ UNCHANGED <<unit, config, readSide, sent, used, lock>>

\* Conn.Read: conn.rio.Lock()
ReadBegin(t, msgLen, k) ==
    /\ thr[t].op = "idle"
    /\ lock[ReadMutex] = Free
    /\ lock' = [lock EXCEPT ![ReadMutex] = t]
    /\ thr' = [thr EXCEPT ![t] = [Idle EXCEPT !.op = "Read", !.msgLen = msgLen, !.k = k]]
    /\ UNCHANGED <<unit, config, readSide, wire, rwcClosed, sent, used, ret, wbuf, sink>>

\* Conn.Read: its loop, the return and the deferred conn.rio.Unlock()
ReadEnd(t) ==
    /\ thr[t].op = "Read"
    /\ LET r == ConnRead(ReadState, thr[t].msgLen, thr[t].k, ShortErr)
       IN /\ r.kind = "ret"
          /\ wire' = r.c.wire
          /\ frameReader' = r.c.frameReader
          /\ payloadType' = r.c.payloadType
          /\ off' = r.c.off
          /\ got' = got \o r.data
          /\ ret' = [op |-> "Read", n |-> r.n, data |-> r.data, isNil |-> FALSE,
                     err |-> r.err]
          /\ lock' = DeferUnlock(ReadMutex, r.err)
    /\ thr' = [thr EXCEPT ![t] = Idle]
    /\ UNCHANGED <<unit, config, rwcClosed, aligned, sent, gotFrames, used, wbuf, sink>>

\* Conn.ReadFrame: conn.rio.Lock()
ReadFrameBegin(t) ==
    /\ thr[t].op = "idle"
    /\ lock[ReadFrameMutex] = Free
    /\ lock' = [lock EXCEPT ![ReadFrameMutex] = t]
    /\ thr' = [thr EXCEPT ![t] = [Idle EXCEPT !.op = "ReadFrame"]]
    /\ UNCHANGED <<unit, config, readSide, wire, rwcClosed, sent, used, ret, wbuf, sink>>

\* Conn.ReadFrame: its body, the return and the deferred conn.rio.Unlock()
ReadFrameEnd(t) ==
    /\ thr[t].op = "ReadFrame"
    /\ LET r == ConnReadFrame(ReadState, MaxPayloadBytes, ShortErr)
       IN /\ r.kind = "ret"
          /\ wire' = r.c.wire
          /\ frameReader' = r.c.frameReader
          /\ payloadType' = r.c.payloadType
          /\ off' = r.c.off
          /\ gotFrames' = IF r.err = ErrNil THEN Append(gotFrames, r.data) ELSE gotFrames
          /\ ret' = [op |-> "ReadFrame", n |-> Len(r.data), data |-> r.data,
                     isNil |-> r.isNil, err |-> r.err]
          /\ lock' = DeferUnlock(ReadFrameMutex, r.err)
    /\ thr' = [thr EXCEPT ![t] = Idle]
    /\ UNCHANGED <<unit, config, rwcClosed, aligned, sent, got, used, wbuf, sink>>

NextConc ==
    \E t \in Threads :
        \/ \E key \in Keys, randOk \in BOOLEAN :
             WriteBegin(t, PayloadOf(Len(sent) + 1, MaxLen), key, randOk)
        \/ \E key \in Keys, randOk \in BOOLEAN : CloseBegin(t, key, randOk)
        \/ BufWrite(t)
        \/ WriteEnd(t)
        \/ CloseEnd(t)
        \/ ReadBegin(t, MaxBuf, MaxBuf)
        \/ ReadEnd(t)
        \/ ReadFrameBegin(t)
        \/ ReadFrameEnd(t)

SpecConc == InitConc /\ [][NextConc]_vars


(***************************************************************************)
(* Vocabulary of the claims.                                               *)
(***************************************************************************)
\* every frame on the stream was written by Conn.Write
OnlyWrites == \A i \in 1..Len(sent) : sent[i].by = "Write"

\* the payloads written, joined in order
AllPayloads == Concat([i \in 1..Len(sent) |-> sent[i].payload])

\* x limited to lo..hi
Clamp(x, lo, hi) == IF x < lo THEN lo ELSE IF x > hi THEN hi ELSE x

\* number of payload bytes among the stream bytes consumed so far
RECURSIVE PayloadConsumed(_)
PayloadConsumed(k) ==
    IF k = 0 THEN 0
    ELSE LET f == sent[k]
             payloadAt == RawLen(sent, k - 1) + Len(f.raw) - Len(f.payload)
         IN PayloadConsumed(k - 1) + Clamp(off - payloadAt, 0, Len(f.payload))

\* the ceiling the connection is configured with
Ceiling == IF MaxPayloadBytes = 0 THEN DefaultMaxPayloadBytes ELSE MaxPayloadBytes

\* the offset at which the next header decode begins once the active frame,
\* if any, is drained
NextHeaderAt ==
    off + (IF frameReader # <<>> /\ frameReader[1].N > 0 THEN frameReader[1].N ELSE 0)

\* a frame begins at offset o; which one
FrameAt(o) == \E k \in 1..Len(sent) : RawLen(sent, k - 1) = o
FrameIndexAt(o) == CHOOSE k \in 1..Len(sent) : RawLen(sent, k - 1) = o

\* this step is a Conn.ReadFrame (a Conn.Read) that consumed stream bytes
ReadFrameStep == ret'.op = "ReadFrame" /\ off' # off
ReadStep == ret'.op = "Read" /\ off' # off

(***************************************************************************)
(* C1.  Round trip: whatever sequence of payloads Conn.Write has put on    *)
(* the stream, masked or not, the bytes Conn.Read has returned so far, in  *)
(* calls of any buffer size, are exactly the payload bytes consumed so     *)
(* far, in order; when the stream is read to its end they are all the      *)
(* payloads joined.                                                        *)
(***************************************************************************)
C1_RoundTrip ==
    (OnlyWrites /\ "ReadFrame" \notin used) =>
        /\ got = Take(AllPayloads, PayloadConsumed(Len(sent)))
        /\ wire = <<>> => got = AllPayloads

\* two masked two-byte frames were read to the end, the last byte alone
C1_Witness ==
    /\ OnlyWrites /\ "ReadFrame" \notin used /\ needMaskingKey
    /\ Len(sent) = 2 /\ Len(sent[1].payload) = 2 /\ Len(sent[2].payload) = 2
    /\ wire = <<>> /\ got = AllPayloads /\ ret.op = "Read" /\ ret.n = 1

(***************************************************************************)
(* C2.  Whole-message read: when only Conn.Write has put frames on the     *)
(* stream, each within the ceiling, and no Conn.Read was called, the j-th  *)
(* successful Conn.ReadFrame returned exactly the j-th payload.            *)
(***************************************************************************)
C2_WholeFrames ==
    (/\ OnlyWrites /\ "Read" \notin used
     /\ \A i \in 1..Len(sent) : Len(sent[i].payload) <= Ceiling) =>
        /\ Len(gotFrames) <= Len(sent)
        /\ \A j \in 1..Len(gotFrames) : gotFrames[j] = sent[j].payload

\* two frames of different lengths were read back, each whole
C2_Witness ==
    /\ OnlyWrites /\ "Read" \notin used /\ MaxPayloadBytes = 0
    /\ Len(sent) = 2 /\ Len(sent[1].payload) = 2 /\ Len(sent[2].payload) = 1
    /\ Len(gotFrames) = 2 /\ gotFrames[1] = sent[1].payload
    /\ gotFrames[2] = sent[2].payload

(***************************************************************************)
(* C3.  Every header decode begins at the first preamble byte of a frame,  *)
(* also after a call that ended with a close frame or an error.            *)
(***************************************************************************)
C3_DecodeAtFrameStart == aligned

(***************************************************************************)
(* C4.  A Read or ReadFrame that comes to a close frame returns no bytes   *)
(* and io.EOF, and hands nothing of the close frame to the caller.         *)
(***************************************************************************)
NextIsClose(o) == FrameAt(o) /\ sent[FrameIndexAt(o)].op = CloseFrame

C4_CloseIsEOF ==
    [][ /\ (ReadFrameStep /\ NextIsClose(NextHeaderAt)) =>
            (ret'.err = EOF /\ ret'.n = 0 /\ ret'.data = <<>> /\ ret'.isNil
             /\ gotFrames' = gotFrames /\ got' = got)
        /\ (ReadStep /\ off = NextHeaderAt /\ NextIsClose(off)) =>
            (ret'.err = EOF /\ ret'.n = 0 /\ ret'.data = <<>>
             /\ gotFrames' = gotFrames /\ got' = got) ]_vars

\* a data frame was read, then the close frame ended a Read with io.EOF, its
\* two status bytes still unread
C4_Witness ==
    /\ Len(sent) = 2 /\ sent[1].by = "Write" /\ sent[2].by = "Close"
    /\ got = sent[1].payload /\ got # <<>>
    /\ ret.op = "Read" /\ ret.err = EOF /\ Len(wire) = 2

C6_ConsistentAfterTooLarge ==
    [][ /\ (ret'.op = "ReadFrame" /\ ret'.err = ErrFrameTooLarge) =>
            (frameReader' = <<>> /\ off' > 0 /\ \E k \in 1..Len(sent) : off' = RawLen(sent, k))
        /\ (/\ ret.op = "ReadFrame" /\ ret.err = ErrFrameTooLarge
            /\ (ReadStep \/ ReadFrameStep) /\ ret'.err = ErrNil /\ FrameAt(off)) =>
            ret'.data = Take(sent[FrameIndexAt(off)].payload, ret'.n) ]_vars

\* the first frame was over the ceiling and rejected, the second was then
\* returned whole
C6_Witness ==
    /\ MaxPayloadBytes = 1 /\ OnlyWrites /\ "Read" \notin used
    /\ Len(sent) = 2 /\ Len(sent[1].payload) = 2 /\ Len(sent[2].payload) = 1
    /\ gotFrames = <<sent[2].payload>> /\ ret.op = "ReadFrame" /\ ret.err = ErrNil

(***************************************************************************)
(* C7.  As claimed: ReadFrame fails with ErrFrameTooLarge exactly when     *)
(* the total length Len() of the frame (header and payload) is greater     *)
(* than the configured maximum.                                            *)
(***************************************************************************)
\* Len() of the k-th frame: its header without the preambule, and the
\* announced payload
TotalLen(k) == Len(sent[k].raw) - Len(sent[k].payload) - Len(preambule) + sent[k].length

Emitted == sink \o wbuf
EmittedBytes == [i \in 1..Len(Emitted) |-> Emitted[i].b]

\* the frames handed to the frame writer, joined in the order of the calls
AllRaw == Concat([i \in 1..Len(sent) |-> sent[i].raw])

IsPrefix(a, b) == Len(a) <= Len(b) /\ a = Take(b, Len(a))

\* the bytes of frame id lie next to each other
Contiguous(id) ==
    \A i, k \in 1..Len(Emitted) :
        (i < k /\ Emitted[i].id = id /\ Emitted[k].id = id)
            => \A j \in i..k : Emitted[j].id = id

\* no Conn.Close has been called
NoClose ==
    /\ \A i \in 1..Len(sent) : sent[i].by # "Close"
    /\ \A t \in Threads : thr[t].op # "Close"

\* the thread is inside a read call and the stream has not got what it waits for
BlockedInRead(t) ==
    \/ thr[t].op = "Read"
       /\ ConnRead(ReadState, thr[t].msgLen, thr[t].k, ShortErr).kind = "block"
    \/ thr[t].op = "ReadFrame"
       /\ ConnReadFrame(ReadState, MaxPayloadBytes, ShortErr).kind = "block"

\* C8: the read side and the write side do not block each other.  While a
\* thread holds rio, blocked in stream input or not, a caller of Conn.Write
\* takes wio as soon as wio is free, and a Write that has begun can always
\* take its next step; a caller of Conn.Read or Conn.ReadFrame takes rio as
\* soon as rio is free, whatever the state of wio.  No thread holds both
\* mutexes, and as long as no Close is called the bytes the writers emit are
\* exactly the frames of the Write calls, whatever the readers do.
C8_ReadWriteIndependent ==
    /\ \A t \in Threads : ~(lock["rio"] = t /\ lock["wio"] = t)
    /\ \A t \in Threads :
         (thr[t].op = "idle" /\ lock["wio"] = Free /\ Len(sent) < MaxFrames)
             => ENABLED WriteBegin(t, PayloadOf(Len(sent) + 1, MaxLen), <<1, 2, 3, 4>>, TRUE)
    /\ \A t \in Threads :
         thr[t].op = "Write" => ENABLED (BufWrite(t) \/ WriteEnd(t))
    /\ \A t \in Threads :
         (thr[t].op = "idle" /\ lock["rio"] = Free)
             => (ENABLED ReadBegin(t, MaxBuf, MaxBuf)) /\ (ENABLED ReadFrameBegin(t))
    /\ NoClose => IsPrefix(EmittedBytes, AllRaw)

\* a reader holds rio and waits for stream input, and meanwhile a Write has
\* taken wio and has buffered bytes of its frame
C8_Witness ==
    \E t, u \in Threads :
        /\ lock["rio"] = t
        /\ BlockedInRead(t)
        /\ lock["wio"] = u
        /\ thr[u].op = "Write"
        /\ wbuf # <<>>

\* C9: calls of the same direction are serialized.  As long as no Close is
\* called, every frame of a Conn.Write is emitted as one contiguous block
\* (preamble, header, payload), the blocks in the order in which the calls
\* took the mutex; the bytes of a Write's frame never lie between the bytes of
\* another Write's frame; and at most one thread is inside Read or ReadFrame.
C9_SameDirectionSerialized ==
    /\ NoClose =>
         /\ \A id \in 1..Len(sent) : Contiguous(id)
         /\ IsPrefix(EmittedBytes, AllRaw)
    /\ \A i, k \in 1..Len(Emitted) :
         (i < k /\ Emitted[i].id = Emitted[k].id /\ sent[Emitted[i].id].by = "Write")
             => \A j \in i..k :
                  Emitted[j].id = Emitted[i].id \/ sent[Emitted[j].id].by # "Write"
    /\ Cardinality({t \in Threads : thr[t].op \in {"Read", "ReadFrame"}}) <= 1

\* the frame of one Write has reached the stream whole and a second Write,
\* having taken the mutex after it, has buffered part of its own frame, while
\* the other thread is inside a read call
C9_Witness ==
    /\ NoClose
    /\ Len(sent) = 2
    /\ [i \in 1..Len(sink) |-> sink[i].b] = sent[1].raw
    /\ wbuf # <<>>
    /\ \E t \in Threads : thr[t].op \in {"Read", "ReadFrame"}

\* C10: the close frame of Conn.Close and the frame of a concurrent
\* Conn.Write are each emitted contiguous: no byte of one lies between the
\* bytes of the other.
C10_CloseSerialized == \A id \in 1..Len(sent) : Contiguous(id)

(***************************************************************************)
(* Vocabulary of the claims on Close, Write and the frame handler.         *)
(***************************************************************************)
\* the error of sending the close frame, for the inputs of a call of Close
SendErr(randOk) == IF needMaskingKey /\ ~randOk THEN ErrRand ELSE FlushErr

\* the bytes are one whole close frame that carries the status closeStatusNormal
IsNormalCloseFrame(raw) ==
    LET d == NewFrameReader(raw)
    IN /\ d.kind = "ok"
       /\ d.frame.OpCode = CloseFrame
       /\ d.frame.Length = 2
       /\ Unmask(Drop(raw, d.consumed), d.frame.MaskingKey, 0)
            = <<closeStatusNormal \div 256, closeStatusNormal % 256>>

\* C11: every call of Conn.Close closes the stream, whether or not the close
\* frame could be sent; when sending succeeds the stream has received one
\* close frame with status 1000; the call returns the error of sending when
\* sending failed, otherwise the error of closing the stream, otherwise nil.
C11_CloseAlwaysCloses ==
    [][\A key \in Keys, randOk \in BOOLEAN, closeOk \in BOOLEAN :
         Close(key, randOk, closeOk) =>
            /\ rwcClosed'
            /\ SendErr(randOk) = ErrNil =>
                 /\ Len(sent') = Len(sent) + 1
                 /\ wire' = wire \o sent'[Len(sent')].raw
                 /\ IsNormalCloseFrame(sent'[Len(sent')].raw)
            /\ ret'.op = "Close"
            /\ ret'.err = IF SendErr(randOk) # ErrNil THEN SendErr(randOk)
                          ELSE IF ~closeOk THEN ErrClose ELSE ErrNil]_vars

\* a Close could not send its frame, returned that error, and the stream is
\* closed all the same
C11_Witness == ret.op = "Close" /\ ret.err = ErrRand /\ rwcClosed /\ sent = <<>>

\* C12: a Conn.Write that succeeds returns len(msg), the number of payload
\* bytes, not counting the preamble and the header of the frame.
C12_WriteReturnsPayloadCount ==
    [][\A msg \in Payloads, key \in Keys, randOk \in BOOLEAN :
         (Write(msg, key, randOk) /\ ret'.err = ErrNil) => ret'.n = Len(msg)]_vars

(***************************************************************************)
(* The frame handler on its own: one tcpFrameHandler is given a sequence   *)
(* of frames, each written by a frame writer and decoded by the reader     *)
(* factory, as the tests of the frame layer do.                            *)
(***************************************************************************)
\* number of frames given to the handler
MaxHandled == 4

\* the connection is not used
Quiet ==
    /\ wire = <<>>
    /\ frameReader = <<>>
    /\ PayloadType = ContinuationFrame
    /\ MaxPayloadBytes = 0
    /\ needMaskingKey = FALSE
    /\ blocking = FALSE
    /\ rwcClosed = FALSE
    /\ off = 0
    /\ aligned = TRUE
    /\ sent = <<>>
    /\ got = <<>>
    /\ gotFrames = <<>>
    /\ used = {}
    /\ ret = NoRet
    /\ lock = [m \in {"rio", "wio"} |-> Free]
    /\ thr = [t \in Threads |-> Idle]
    /\ wbuf = <<>>
    /\ sink = <<>>

connVars == <<wire, frameReader, PayloadType, MaxPayloadBytes, needMaskingKey,
              blocking, rwcClosed, off, aligned, sent, got, gotFrames, used,
              ret, lock, thr, wbuf, sink>>

\* the opcodes of the frames: the four the handler names and one it does not
Opcodes == {ContinuationFrame, TextFrame, BinaryFrame, CloseFrame, 9}

\* the held type a handler is constructed with: &tcpFrameHandler{} and
\* &tcpFrameHandler{payloadType: TextFrame}
HandlerLiterals == {0, TextFrame}

InitHandler ==
    /\ Quiet
    /\ \E h \in HandlerLiterals :
         /\ payloadType = h
         /\ probe = [op |-> "tcpFrameHandler", payloadType |-> h]
    /\ handled = <<>>

\* the frame the reader factory decodes from an empty frame of this opcode
DecodedFrame(opcode) ==
    NewFrameReader(Concat(FrameWriterWrite(NewFrameWriter(opcode, FALSE, <<>>), <<>>).chunks)).frame

\* handler.HandleFrame(frame) for a frame of the given opcode
Handle(opcode) ==
    /\ Len(handled) < MaxHandled
    /\ LET r == HandleFrame(DecodedFrame(opcode), payloadType)
       IN /\ payloadType' = r.payloadType
          /\ handled' = Append(handled,
                 [op |-> opcode, isNil |-> r.frame = <<>>, err |-> r.err,
                  reported |-> IF r.frame = <<>> THEN opcode ELSE r.frame[1].OpCode])
    /\ UNCHANGED <<connVars, probe>>

NextHandler == \E opcode \in Opcodes : Handle(opcode)

SpecHandler == InitHandler /\ [][NextHandler]_vars

\* the frames before the i-th that were text or binary frames
DataBefore(i) == {j \in 1..(i - 1) : handled[j].op \in {TextFrame, BinaryFrame}}
Last(S) == CHOOSE j \in S : \A k \in S : k <= j

\* C13: a continuation frame is reported with the opcode of the most recent
\* text or binary frame the same handler processed before it, whatever frames
\* lie in between; so are several continuation frames in a row.
C13_ContinuationResolved ==
    \A i \in 1..Len(handled) :
        (handled[i].op = ContinuationFrame /\ DataBefore(i) # {})
            => /\ ~handled[i].isNil
               /\ handled[i].err = ErrNil
               /\ handled[i].reported = handled[Last(DataBefore(i))].op

\* a binary frame and then two continuation frames, both reported as binary
C13_Witness ==
    /\ Len(handled) >= 3
    /\ handled[1].op = BinaryFrame
    /\ handled[2].op = ContinuationFrame
    /\ handled[3].op = ContinuationFrame
    /\ handled[3].reported = BinaryFrame

\* C14: a handler constructed as &tcpFrameHandler{} holds the type unknown
\* (255): a continuation frame it handles before any text or binary frame is
\* reported with type 255.
C14_InitiallyUnknown ==
    \A i \in 1..Len(handled) :
        (/\ probe.payloadType = 0
         /\ handled[i].op = ContinuationFrame
         /\ DataBefore(i) = {})
            => handled[i].reported = UnknownFrame

(***************************************************************************)
(* The header codec on its own: tcpFrameWriter.Write builds the header of  *)
(* a frame and tcpFrameReaderFactory.NewFrameReader decodes it.            *)
(***************************************************************************)
\* payload lengths on both sides of the writer's two boundaries
Lengths == {0, 1, 124, 125, 126, 127, 65534, 65535, 65536, 65537}

InitCodec ==
    /\ Quiet
    /\ payloadType = 0
    /\ handled = <<>>
    /\ probe = NoProbe

\* a writer made for opcode and key (<<>>: no masking) writes the header of a
\* payload of the given length, and the reader factory decodes preamble and
\* header
EncodeDecode(opcode, key, length) ==
    /\ LET header == NewFrameWriter(opcode, key # <<>>, key)
           hb == HeaderBytes(header, length)
       IN probe' = [op |-> "header", opcode |-> opcode, key |-> key,
                    length |-> length, header |-> hb,
                    d |-> NewFrameReader(preambule \o hb)]
    /\ UNCHANGED <<connVars, payloadType, handled>>

NextCodec ==
    \E opcode \in Opcodes, key \in Keys \cup {<<>>}, length \in Lengths :
        EncodeDecode(opcode, key, length)

SpecCodec == InitCodec /\ [][NextCodec]_vars

\* the bytes of the written header that tell the length: the indicator byte
\* and the extended length bytes
LengthBytes == SubSeq(probe.header, 2, Len(probe.header) - Len(probe.key))

\* C15: the writer tells a length L <= 125 by the 7-bit indicator alone, a
\* length 126..65535 by indicator 126 and 2 big-endian bytes, a length of
\* 65536 or more by indicator 127 and 8 big-endian bytes, and the reader
\* decodes the header to exactly L.
C15_LengthBoundaries ==
    probe.op = "header" =>
        LET L == probe.length
            ind == LengthBytes[1] % 128
        IN /\ L <= 125 => (Len(LengthBytes) = 1 /\ ind = L)
           /\ (126 <= L /\ L <= 65535) =>
                 /\ Len(LengthBytes) = 3
                 /\ ind = 126
                 /\ LengthBytes[2] * 256 + LengthBytes[3] = L
           /\ L >= 65536 =>
                 /\ Len(LengthBytes) = 9
                 /\ ind = 127
                 /\ \A i \in 2..6 : LengthBytes[i] = 0
                 /\ (LengthBytes[7] * 256 + LengthBytes[8]) * 256 + LengthBytes[9] = L
           /\ probe.d.kind = "ok"
           /\ probe.d.frame.Length = L
           /\ probe.d.frame.MaskingKey = probe.key
           /\ probe.d.frame.OpCode = probe.opcode

\* a masked frame of 65536 payload bytes got 9 length bytes and decodes to 65536
C15_Witness ==
    /\ probe.op = "header"
    /\ probe.length = 65536
    /\ probe.key # <<>>
    /\ Len(LengthBytes) = 9
    /\ probe.d.frame.Length = 65536

\* C18 as stated: Len() of a decoded frame is the number of bytes consumed
\* for its header, the 4-byte preamble included, plus the payload length.
C18_LenCountsPreambule ==
    (probe.op = "header" /\ probe.d.kind = "ok") =>
        probe.d.frame.length = probe.d.consumed + probe.d.frame.Length

\* C18: Len() of a decoded frame is the number of header bytes consumed after
\* the 4-byte preamble plus the payload length.
C18_LenWithoutPreambule ==
    (probe.op = "header" /\ probe.d.kind = "ok") =>
        /\ probe.d.consumed = Len(preambule) + Len(probe.header)
        /\ probe.d.frame.length = Len(probe.header) + probe.d.frame.Length

\* a masked frame of 1 payload byte: 10 bytes are consumed for preamble and
\* header, and Len() is 7
C18_Witness ==
    /\ probe.op = "header"
    /\ probe.key # <<>>
    /\ probe.length = 1
    /\ probe.d.kind = "ok"
    /\ probe.d.consumed = 10
    /\ probe.d.frame.length = 7

(***************************************************************************)
(* The frame reader on its own: one masked frame is written, decoded by    *)
(* the reader factory and then read by successive tcpFrameReader.Read      *)
(* calls of any sizes.                                                     *)
(***************************************************************************)
\* longest payload of the frame, and longest buffer given to one Read
MaxPlain == 6
MaxChunk == 3

\* a writer with masking key writes plain, and the reader factory decodes
\* the header: the stream is left at the first payload byte
NewMaskedFrame(key, plain) ==
    /\ probe = NoProbe
    /\ LET raw == Concat(FrameWriterWrite(NewFrameWriter(BinaryFrame, TRUE, key), plain).chunks)
           d == NewFrameReader(raw)
       IN /\ frameReader' = <<d.frame>>
          /\ wire' = Drop(raw, d.consumed)
          /\ off' = d.consumed
          /\ probe' = [op |-> "masked", key |-> key, plain |-> plain,
                       masked |-> Drop(raw, d.consumed)]
    /\ UNCHANGED <<PayloadType, MaxPayloadBytes, needMaskingKey, blocking, rwcClosed,
                   aligned, sent, got, gotFrames, used, ret, conc, payloadType, handled>>

\* frame.Read(msg) with len(msg) = msgLen, the stream handing over k bytes at most
FrameReadStep(msgLen, k) ==
    /\ frameReader # <<>>
    /\ LET r == FrameRead(frameReader[1], wire, msgLen, k)
       IN /\ wire' = Drop(wire, r.n)
          /\ off' = off + r.n
          /\ frameReader' = <<r.frame>>
          /\ got' = got \o r.data
          /\ ret' = [op |-> "frame.Read", n |-> r.n, data |-> r.data,
                     isNil |-> FALSE, err |-> r.err]
    /\ UNCHANGED <<PayloadType, MaxPayloadBytes, needMaskingKey, blocking, rwcClosed,
                   aligned, sent, gotFrames, used, conc, payloadType, unit>>

NextFrameReader ==
    \/ \E key \in Keys, len \in 0..MaxPlain : NewMaskedFrame(key, PayloadOf(1, len))
    \/ \E msgLen \in 1..MaxChunk, k \in 1..MaxChunk : k <= msgLen /\ FrameReadStep(msgLen, k)

SpecFrameReader == InitCodec /\ [][NextFrameReader]_vars

\* C16: however the payload of a masked frame is split into reads, the i-th
\* byte delivered is the i-th payload byte on the stream XOR key[i mod 4]
\* (i from 0), the position counter is the number of bytes delivered, and the
\* bytes delivered are the plaintext written.
C16_UnmaskChunkIndependent ==
    probe.op = "masked" =>
        /\ Len(got) <= Len(probe.plain)
        /\ \A i \in 1..Len(got) :
             got[i] = Xor(probe.masked[i], probe.key[((i - 1) % 4) + 1])
        /\ got = Take(probe.plain, Len(got))
        /\ frameReader[1].pos = Len(got)
        /\ wire = Drop(probe.masked, Len(got))

\* the whole payload of the longest frame has been delivered, the last byte
\* by a read of its own, after the key was used up once
C16_Witness ==
    /\ probe.op = "masked"
    /\ Len(probe.plain) = MaxPlain
    /\ got = probe.plain
    /\ ret.n = 1
    /\ frameReader[1].pos > 4

(***************************************************************************)
(* The deadline setters, added to the operations of the connection.        *)
(***************************************************************************)
errSetDeadline == "errSetDeadline"

\* conn.rwc.(net.Conn): the stream of the tests is no net.Conn, a socket is
IsNetConn == blocking

\* (variant) the setters report success on any stream
DeadlineErrNil == ErrNil

\* what a setter returns: the result of the net.Conn's setter, or errSetDeadline
DeadlineErr == IF IsNetConn THEN ErrNil ELSE errSetDeadline

\* Conn.SetDeadline(t)
SetDeadline ==
    /\ ret' = [op |-> "SetDeadline", n |-> 0, data |-> <<>>, isNil |-> TRUE,
               err |-> DeadlineErr]
    /\ UNCHANGED <<unit, config, readSide, wire, rwcClosed, sent, used, conc>>

\* Conn.SetReadDeadline(t)
SetReadDeadline ==
    /\ ret' = [op |-> "SetReadDeadline", n |-> 0, data |-> <<>>, isNil |-> TRUE,
               err |-> DeadlineErr]
    /\ UNCHANGED <<unit, config, readSide, wire, rwcClosed, sent, used, conc>>

\* Conn.SetWriteDeadline(t)
SetWriteDeadline ==
    /\ ret' = [op |-> "SetWriteDeadline", n |-> 0, data |-> <<>>, isNil |-> TRUE,
               err |-> DeadlineErr]
    /\ UNCHANGED <<unit, config, readSide, wire, rwcClosed, sent, used, conc>>

NextDeadline ==
    \/ \E msg \in Payloads, key \in Keys, randOk \in BOOLEAN : Write(msg, key, randOk)
    \/ \E key \in Keys, randOk \in BOOLEAN, closeOk \in BOOLEAN : Close(key, randOk, closeOk)
    \/ \E msgLen \in 0..MaxBuf, k \in 1..MaxBuf : (k <= msgLen \/ k = 1) /\ Read(msgLen, k)
    \/ ReadFrame
    \/ SetDeadline
    \/ SetReadDeadline
    \/ SetWriteDeadline

SpecDeadline == Init /\ [][NextDeadline]_vars

\* C17: on a connection over a stream that is no net.Conn, every call of
\* SetDeadline, SetReadDeadline and SetWriteDeadline returns errSetDeadline
\* and changes neither the active frame, the handler's held type, the stream
\* nor anything else of the connection.
C17_DeadlineSettersFail ==
    [][(~IsNetConn /\ (SetDeadline \/ SetReadDeadline \/ SetWriteDeadline)) =>
          /\ ret'.err = errSetDeadline
          /\ frameReader' = frameReader
          /\ payloadType' = payloadType
          /\ wire' = wire
          /\ rwcClosed' = rwcClosed
          /\ <<PayloadType, MaxPayloadBytes, needMaskingKey>>'
               = <<PayloadType, MaxPayloadBytes, needMaskingKey>>]_vars

\* SetReadDeadline has failed while a frame is active, with payload bytes
\* already returned and payload bytes still on the stream
C17_Witness ==
    /\ ret.op = "SetReadDeadline"
    /\ ret.err = errSetDeadline
    /\ frameReader # <<>>
    /\ frameReader[1].N > 0
    /\ wire # <<>>
    /\ got # <<>>

(***************************************************************************)
(* Vocabulary of the claims on the streaming Read.                         *)
(***************************************************************************)
\* every frame on the stream was written whole by Conn.Write or Conn.Close
NoPeer == \A i \in 1..Len(sent) : sent[i].by # "peer"

\* offset of the first payload byte of the f-th frame
PayloadAt(f) == RawLen(sent, f) - Len(sent[f].payload)

\* C19: a Conn.Read that returns n > 0 bytes returns bytes of one frame only:
\* the n bytes it consumed last lie inside the payload of one frame, they
\* are that payload's bytes, and the stream is left at or before the end of
\* that frame, so that nothing of the following frame is consumed.
C19_ReadWithinOneFrame ==
    [][(ReadStep /\ NoPeer /\ ret'.n > 0) =>
          \E f \in 1..Len(sent) :
              /\ off' - ret'.n >= PayloadAt(f)
              /\ off' - ret'.n >= off
              /\ off' <= RawLen(sent, f)
              /\ ret'.n = Len(ret'.data)
              /\ ret'.data = SubSeq(sent[f].payload, off' - ret'.n - PayloadAt(f) + 1,
                                    off' - PayloadAt(f))]_vars

\* a Read has returned the one payload byte of the first frame and the
\* stream stands at the first byte of the second frame, which is all unread
C19_Witness ==
    /\ NoPeer
    /\ Len(sent) = 2
    /\ Len(sent[1].payload) = 1
    /\ Len(sent[2].payload) = 2
    /\ ret.op = "Read"
    /\ ret.data = sent[1].payload
    /\ off = RawLen(sent, 1)
    /\ wire = sent[2].raw

\* C20: a Conn.Read with a non-empty buffer never returns (0, nil); when
\* only frames of Conn.Write are on the stream and a payload byte is still
\* unread, it skips the frames that are empty or used up and returns, in the
\* same call, the next unread payload bytes.
C20_EmptyFramesSkipped ==
    [][\A msgLen \in 1..MaxBuf, k \in 1..MaxBuf :
         Read(msgLen, k) =>
            /\ ~(ret'.n = 0 /\ ret'.err = ErrNil)
            /\ (OnlyWrites /\ PayloadConsumed(Len(sent)) < Len(AllPayloads)) =>
                 /\ ret'.n > 0
                 /\ ret'.err = ErrNil
                 /\ ret'.data = SubSeq(AllPayloads, PayloadConsumed(Len(sent)) + 1,
                                       PayloadConsumed(Len(sent)) + ret'.n)]_vars

\* an empty frame and a frame of two bytes were written, and the only bytes
\* any read has returned are those of the last Read, from the second frame
C20_Witness ==
    /\ OnlyWrites
    /\ Len(sent) = 2
    /\ sent[1].payload = <<>>
    /\ Len(sent[2].payload) = 2
    /\ ret.op = "Read"
    /\ ret.n > 0
    /\ got = ret.data
    /\ ret.data = Take(sent[2].payload, ret.n)

\* the frame whose payload the read side stands in
ActiveFrame == CHOOSE f \in 1..Len(sent) : PayloadAt(f) <= off /\ off < RawLen(sent, f)

\* a Conn.Read has left a frame of Conn.Write active with payload bytes unread
PartlyRead ==
    /\ OnlyWrites
    /\ frameReader # <<>>
    /\ frameReader[1].N > 0
    /\ \E f \in 1..Len(sent) : PayloadAt(f) <= off /\ off < RawLen(sent, f)

\* C21: a Conn.ReadFrame called while a frame is active with unread payload
\* discards the rest of that frame and leaves no frame active; it returns the
\* whole payload of the next frame when that is within the ceiling,
\* ErrFrameTooLarge when it is not, io.EOF when no frame follows, and never
\* the rest of the active frame.
C21_ReadFrameAfterPartialRead ==
    [][(PartlyRead /\ ReadFrame) =>
          LET f == ActiveFrame
          IN /\ frameReader' = <<>>
             /\ off' >= RawLen(sent, f)
             /\ IF f = Len(sent)
                THEN ret'.isNil /\ ret'.err = EOF
                ELSE /\ off' = RawLen(sent, f + 1)
                     /\ IF Len(sent[f + 1].payload) <= Ceiling
                        THEN /\ ret'.err = ErrNil
                             /\ ret'.data = sent[f + 1].payload
                        ELSE ret'.isNil /\ ret'.err = ErrFrameTooLarge]_vars

\* one byte of the first frame was read by Conn.Read, and the ReadFrame after
\* it has returned the two bytes of the second frame
C21_Witness ==
    /\ OnlyWrites
    /\ Len(sent) = 2
    /\ Len(sent[1].payload) = 2
    /\ Len(sent[2].payload) = 2
    /\ got = Take(sent[1].payload, 1)
    /\ ret.op = "ReadFrame"
    /\ ret.err = ErrNil
    /\ gotFrames = <<sent[2].payload>>
    /\ frameReader = <<>>

(***************************************************************************)
(* Frames of a peer, well-formed or with one preamble byte wrong, on the   *)
(* stream of a connection that also writes frames of its own.              *)
(***************************************************************************)
\* the payload of a peer's frame
PeerPayload == <<7>>

\* the preamble with its i-th byte replaced by b
BadPreambule(i, b) == [j \in 1..Len(preambule) |-> IF j = i THEN b ELSE preambule[j]]

\* bytes that may stand for a preamble byte: zero, 0x5A and 0xA5
PreambuleBytes == {0, 90, 165}

\* an unmasked final frame as a peer encodes it after the four bytes pre
PeerFrame(pre, opcode) == pre \o <<128 + opcode, Len(PeerPayload)>> \o PeerPayload

\* the peer's frame reaches the stream
InjectFrame(pre, opcode) ==
    /\ Len(sent) < MaxFrames
    /\ wire' = wire \o PeerFrame(pre, opcode)
    /\ sent' = Append(sent, [by |-> "peer", op |-> opcode, payload |-> PeerPayload,
                             length |-> Len(PeerPayload), raw |-> PeerFrame(pre, opcode)])
    /\ UNCHANGED <<unit, config, readSide, rwcClosed, used, ret, conc>>

NextPreambule ==
    \/ \E msg \in Payloads, key \in Keys, randOk \in BOOLEAN : Write(msg, key, randOk)
    \/ \E opcode \in {TextFrame, BinaryFrame} : InjectFrame(preambule, opcode)
    \/ \E i \in 1..Len(preambule), b \in PreambuleBytes, opcode \in {TextFrame, BinaryFrame} :
          b # preambule[i] /\ InjectFrame(BadPreambule(i, b), opcode)
    \/ \E msgLen \in 0..MaxBuf, k \in 1..MaxBuf : (k <= msgLen \/ k = 1) /\ Read(msgLen, k)
    \/ ReadFrame

SpecPreambule == Init /\ [][NextPreambule]_vars

\* the f-th frame of the stream has a wrong preamble byte; the first such byte
BadFrame(f) == \E i \in 1..Len(preambule) : sent[f].raw[i] # preambule[i]
FirstWrong(f) ==
    CHOOSE i \in 1..Len(preambule) :
        /\ sent[f].raw[i] # preambule[i]
        /\ \A j \in 1..(i - 1) : sent[f].raw[j] = preambule[j]

\* the next header decode of a Conn.Read (of a Conn.ReadFrame) begins at the
\* first byte of the f-th frame
ReadDecodesAt(f) ==
    /\ off = RawLen(sent, f - 1)
    /\ frameReader # <<>> => frameReader[1].N = 0
ReadFrameDecodesAt(f) == NextHeaderAt = RawLen(sent, f - 1)

\* C22: when the header decode of a Conn.Read or Conn.ReadFrame begins at the
\* first byte of a frame whose preamble differs from 5A A5 5A A5 in its i-th
\* byte, the call returns ErrBadPreambule with no data, the stream is consumed
\* up to and including that i-th byte and no further, no frame is active
\* after the call, and the handler's held payload type is what it was.
C22_BadPreambule ==
    [][\A f \in 1..Len(sent) :
          (/\ BadFrame(f)
           /\ \/ ret'.op = "Read" /\ ReadDecodesAt(f)
              \/ ret'.op = "ReadFrame" /\ ReadFrameDecodesAt(f)
           /\ \/ ReadFrame
              \/ \E msgLen \in 0..MaxBuf, k \in 1..MaxBuf :
                    (k <= msgLen \/ k = 1) /\ Read(msgLen, k))
          => /\ ret'.err = ErrBadPreambule
             /\ ret'.n = 0
             /\ ret'.data = <<>>
             /\ ret'.op = "ReadFrame" => ret'.isNil
             /\ off' = RawLen(sent, f - 1) + FirstWrong(f)
             /\ frameReader' = <<>>
             /\ payloadType' = payloadType
             /\ got' = got
             /\ gotFrames' = gotFrames]_vars

\* a text frame of the peer was read, then a frame whose first preamble byte
\* is wrong made Conn.Read fail after that one byte; the held type is text
C22_Witness ==
    /\ Len(sent) = 2
    /\ sent[1].op = TextFrame
    /\ ~BadFrame(1)
    /\ BadFrame(2)
    /\ FirstWrong(2) = 1
    /\ got = PeerPayload
    /\ ret.op = "Read"
    /\ ret.err = ErrBadPreambule
    /\ off = RawLen(sent, 1) + 1
    /\ frameReader = <<>>
    /\ payloadType = TextFrame

(***************************************************************************)
(* The 8-byte extended length field: headers with indicator 127 as a peer  *)
(* may send them, decoded by the reader factory, and the frame reader      *)
(* made for them read to its end over the bytes that follow.               *)
(***************************************************************************)
\* 8-byte length fields: the four high bytes are all hi, then b5, two bytes
\* b67 and the low byte b8
LengthField(hi, b5, b67, b8) == <<hi, hi, hi, hi, b5, b67, b67, b8>>
LengthFields ==
    {LengthField(0, b5, b67, b8) : b5 \in {0, 1, 63}, b67 \in {0, 255}, b8 \in {0, 1, 2, 254, 255}}
    \cup
    {LengthField(255, b5, b67, b8) : b5 \in {192, 254, 255}, b67 \in {0, 255}, b8 \in {0, 1, 2, 254, 255}}

\* how many bytes follow the header on the stream
MaxFollow == 3

\* the factory decodes a header with indicator 127 and the given length
\* field; io.ReadAll then reads the frame over the avail bytes that follow
DecodeLength(field, avail) ==
    /\ LET d == NewFrameReader(preambule \o <<128 + BinaryFrame, 127>> \o field)
           stream == PayloadOf(1, avail)
       IN probe' = [op |-> "length", field |-> field, stream |-> stream,
                    d |-> d, all |-> ReadAll(d.frame, stream)]
    /\ UNCHANGED <<connVars, payloadType, handled>>

NextLength == \E field \in LengthFields, avail \in 0..MaxFollow : DecodeLength(field, avail)

SpecLength == InitCodec /\ [][NextLength]_vars

\* C23: the length decoded from an 8-byte field is the unsigned big-endian
\* value of the eight bytes: it is never negative, it is that value whenever
\* the top bit is clear, and reading the frame to its end takes exactly that
\* many of the bytes that follow (all of them when fewer follow; a value with
\* the top bit set is at least 2^63, more than any stream here holds).
C23_LengthUnsigned ==
    probe.op = "length" =>
        LET L == probe.d.frame.Length
            follow == Len(probe.stream)
        IN /\ L >= 0
           /\ probe.field[1] < 128 => L = LengthOf(0, probe.field)
           /\ probe.all.n = IF probe.field[1] >= 128 THEN follow
                            ELSE Min(LengthOf(0, probe.field), follow)

\* the field FF FF FF FF FF FF FF FE decodes to -2 and the frame reader made
\* for it reads none of the three bytes that follow
C23_NegativeLength ==
    /\ probe.op = "length"
    /\ probe.field = LengthField(255, 255, 255, 254)
    /\ probe.d.frame.Length = -2
    /\ Len(probe.stream) = MaxFollow
    /\ probe.all.n = 0

(***************************************************************************)
(* Concurrent callers of a connection that masks its frames and has a      *)
(* ceiling of one payload byte, over a socket: every way out of Read,      *)
(* ReadFrame and Write is taken.                                           *)
(***************************************************************************)
InitLocks ==
    /\ wire = <<>>
    /\ frameReader = <<>>
    /\ payloadType = 0
    /\ PayloadType = ContinuationFrame
    /\ MaxPayloadBytes = 1
    /\ needMaskingKey = TRUE
    /\ blocking = TRUE
    /\ rwcClosed = FALSE
    /\ off = 0
    /\ aligned = TRUE
    /\ sent = <<>>
    /\ got = <<>>
    /\ gotFrames = <<>>
    /\ used = {}
    /\ ret = NoRet
    /\ lock = [m \in {"rio", "wio"} |-> Free]
    /\ thr = [t \in Threads |-> Idle]
    /\ wbuf = <<>>
    /\ sink = <<>>
    /\ handled = <<>>
    /\ probe = NoProbe

\* the masking key of every frame
LockKey == <<1, 2, 3, 4>>

\* the first frame written has one payload byte, a later one MaxLen
NextLocks ==
    \E t \in Threads :
        \/ \E randOk \in BOOLEAN :
             WriteBegin(t, PayloadOf(Len(sent) + 1, Min(Len(sent) + 1, MaxLen)), LockKey, randOk)
        \/ \E randOk \in BOOLEAN : CloseBegin(t, LockKey, randOk)
        \/ BufWrite(t)
        \/ WriteEnd(t)
        \/ CloseEnd(t)
        \/ ReadBegin(t, MaxBuf, MaxBuf)
        \/ ReadEnd(t)
        \/ ReadFrameBegin(t)
        \/ ReadFrameEnd(t)

SpecLocks == InitLocks /\ [][NextLocks]_vars

\* the calls that take mutex m
CallsOf(m) == IF m = "wio" THEN {"Write"} ELSE {"Read", "ReadFrame"}

\* C24: when a Read, ReadFrame or Write returns, with a nil error or any
\* other, the mutex it took is free again; a mutex is never held by a thread
\* that is not inside a call of that side, so that no call that has returned
\* keeps a later call of its side waiting.
C24_LocksReleased ==
    [][\A t \in Threads, m \in {"rio", "wio"} :
          /\ (thr[t].op \in CallsOf(m) /\ thr'[t].op = "idle")
                => (lock[m] = t /\ lock'[m] = Free)
          /\ lock'[m] # Free => thr'[lock'[m]].op \in CallsOf(m)]_vars

\* a ReadFrame has returned ErrFrameTooLarge and the other thread, calling
\* Read after it, holds rio
C24_Witness ==
    /\ ret.op = "ReadFrame"
    /\ ret.err = ErrFrameTooLarge
    /\ thr["t1"].op = "idle"
    /\ thr["t2"].op = "Read"
    /\ lock["rio"] = "t2"

(***************************************************************************)
(* Concurrent callers of a connection whose stream also carries frames of  *)
(* a peer, of every opcode.                                                *)
(***************************************************************************)
NextHeld ==
    \/ NextConc
    \/ \E opcode \in Opcodes : InjectFrame(preambule, opcode)

SpecHeld == InitConc /\ [][NextHeld]_vars

\* thread t returns from a Conn.Read or Conn.ReadFrame in this step
ReadReturns(t) == thr[t].op \in {"Read", "ReadFrame"} /\ thr'[t].op = "idle"

\* the offsets at which the call thread t is in decodes a header, and the
\* header decoded at offset o
DecodedAt(t) ==
    IF thr[t].op = "Read"
    THEN ConnRead(ReadState, thr[t].msgLen, thr[t].k, ShortErr).c.starts
    ELSE ConnReadFrame(ReadState, MaxPayloadBytes, ShortErr).c.starts
HeaderAt(o) == NewFrameReader(Drop(wire, o - off))

\* the held type after the frames decoded at the offsets S, in stream order,
\* when it was h before: the opcode of the last text or binary frame
RECURSIVE HeldOver(_, _)
HeldOver(h, S) ==
    IF S = {} THEN h
    ELSE LET o == CHOOSE x \in S : \A y \in S : x <= y
             d == HeaderAt(o)
         IN HeldOver(IF d.kind = "ok" /\ d.frame.OpCode \in {TextFrame, BinaryFrame}
                     THEN d.frame.OpCode ELSE h,
                     S \ {o})

\* the header decoded last in the call
LastDecoded(S) == HeaderAt(CHOOSE x \in S : \A y \in S : x >= y)

\* C25: the held payload type changes only in a step in which a Read or
\* ReadFrame returns whose caller holds rio.  Over the frames such a call
\* hands to HandleFrame, the held type becomes the opcode of each text or
\* binary frame and is left as it is by continuation, close and other
\* frames.  A frame the call leaves active keeps its opcode unless it is a
\* continuation frame, and a close frame is never left active: the call
\* returns io.EOF.
C25_HeldType ==
    [][/\ payloadType' # payloadType => \E t \in Threads : ReadReturns(t)
       /\ \A t \in Threads :
            ReadReturns(t) =>
               LET S == DecodedAt(t)
               IN /\ lock["rio"] = t
                  /\ payloadType' = HeldOver(payloadType, S)
                  /\ S # {} /\ LastDecoded(S).kind = "ok" =>
                        LET op == LastDecoded(S).frame.OpCode
                        IN /\ (frameReader' # <<>> /\ op # ContinuationFrame)
                                 => frameReader'[1].OpCode = op
                           /\ op = CloseFrame => frameReader' = <<>> /\ ret'.err = EOF]_vars

\* two calls of ReadFrame have returned a text frame of the peer, which set
\* the held type, and a frame of opcode 9, which left it
C25_Witness ==
    /\ Len(sent) = 2
    /\ sent[1].by = "peer" /\ sent[1].op = TextFrame
    /\ sent[2].by = "peer" /\ sent[2].op = 9
    /\ ret.op = "ReadFrame"
    /\ gotFrames = <<PeerPayload, PeerPayload>>
    /\ payloadType = TextFrame

\* a Read or ReadFrame has decoded the header of the first close frame of a
\* stream of frames of Write and Close, and so has returned io.EOF for it
ClosePassed ==
    /\ NoPeer
    /\ \E f \in 1..Len(sent) :
          /\ sent[f].by = "Close"
          /\ \A g \in 1..(f - 1) : sent[g].by = "Write"
          /\ off >= PayloadAt(f)

\* the number of payload bytes Read and ReadFrame have returned so far
Returned == Len(got) + Len(Concat(gotFrames))

\* C26: once a Read or ReadFrame has returned io.EOF for a close frame, no
\* later Read or ReadFrame returns payload bytes, whatever follows the close
\* frame on the stream.
C26_CloseSticky == [][ClosePassed => Returned' = Returned]_vars

\* a Close and then a Write put their frames on the stream; reads returned
\* io.EOF for the close frame and later the payload of the frame after it
C26_DataAfterClose ==
    /\ Len(sent) = 2
    /\ sent[1].by = "Close"
    /\ sent[2].by = "Write"
    /\ ClosePassed
    /\ ret.op = "Read"
    /\ ret.n > 0
    /\ got = sent[2].payload

====
